---- MODULE Spec2Model ----
(***************************************************************************)
(* Modsync: the sync engine (core/sync_engine.py), the file monitor        *)
(* (core/file_monitor.py) and the metadata store (core/metadata_db.py).    *)
(*                                                                         *)
(* Strings are sequences of one-character strings, so that                 *)
(* str.startswith, str.endswith, os.path.relpath and os.path.join are      *)
(* computed character by character, as Python computes them.               *)
(***************************************************************************)
EXTENDS Integers, Sequences, FiniteSets, TLC

VARIABLES
    config,     \* SyncEngine.config: the loaded configuration
    fs,         \* the file system's regular files: absolute path -> content
    dirs,       \* the file system's directories: set of absolute paths
    pending,    \* change events not yet handed to SyncEngine.sync_file
    db,         \* MetadataDB's table "files": path -> [modified_time, size]
    stats,      \* os.stat of the files MetadataDB looks at: path -> [mtime, size]
    clock,      \* the file system's clock (the source of st_mtime)
    call,       \* the last API call and what it returned
    hist,       \* history: the last handled event, consecutive full_sync runs
    mounted,    \* the NFS share is in the system's mount table
    observers,  \* FileMonitor.observers: the watched directory of each observer
    pc          \* the position and the locals of each running call

vars == <<config, fs, dirs, pending, db, stats, clock, call, hist,
          mounted, observers, pc>>

(***************************************************************************)
(* Bounds of the model.                                                    *)
(***************************************************************************)
MaxData == 2        \* file contents are 1..MaxData
MaxQueue == 1       \* events waiting to be handled
MaxClock == 3       \* st_mtime values are 0..MaxClock
MaxSize == 2        \* st_size values are 0..MaxSize

(***************************************************************************)
(* Python's None (and the other falsy path, the empty string).             *)
(***************************************************************************)
None == <<"None">>

Truthy(s) == s # None /\ s # <<>>

(***************************************************************************)
(* str methods.                                                            *)
(***************************************************************************)
StartsWith(s, prefix) ==
    /\ Len(prefix) <= Len(s)
    /\ SubSeq(s, 1, Len(prefix)) = prefix

EndsWith(s, suffix) ==
    /\ Len(suffix) <= Len(s)
    /\ SubSeq(s, Len(s) - Len(suffix) + 1, Len(s)) = suffix

\* the index of the last "/" of s, 0 when there is none (str.rfind + 1)
LastSlash(s) ==
    LET idx == {k \in 1..Len(s) : s[k] = "/"}
    IN  IF idx = {} THEN 0 ELSE CHOOSE k \in idx : \A j \in idx : j <= k

\* the index of the first "/" of s, Len(s) + 1 when there is none
FirstSlash(s) ==
    LET idx == {k \in 1..Len(s) : s[k] = "/"}
    IN  IF idx = {} THEN Len(s) + 1 ELSE CHOOSE k \in idx : \A j \in idx : k <= j

\* [x for x in s.split('/') if x]
RECURSIVE Components(_)
Components(s) ==
    IF s = <<>> THEN <<>>
    ELSE LET i    == FirstSlash(s)
             head == SubSeq(s, 1, i - 1)
             rest == SubSeq(s, i + 1, Len(s))
         IN  IF head = <<>> THEN Components(rest)
             ELSE <<head>> \o Components(rest)

\* '/'.join(comps)
RECURSIVE JoinComponents(_)
JoinComponents(comps) ==
    IF comps = <<>> THEN <<>>
    ELSE IF Len(comps) = 1 THEN comps[1]
    ELSE comps[1] \o <<"/">> \o JoinComponents(Tail(comps))

(***************************************************************************)
(* os.path.                                                                *)
(***************************************************************************)
Dot == <<".">>
DotDot == <<".", ".">>

\* os.path.basename: what follows the last "/"
Basename(p) == SubSeq(p, LastSlash(p) + 1, Len(p))

\* strip trailing "/" from a head that is not all "/"
RECURSIVE RStripSlash(_)
RStripSlash(s) ==
    IF s # <<>> /\ s[Len(s)] = "/" THEN RStripSlash(SubSeq(s, 1, Len(s) - 1))
    ELSE s

\* os.path.dirname: what precedes the last "/", without trailing slashes
Dirname(p) ==
    LET head == SubSeq(p, 1, LastSlash(p))
    IN  IF RStripSlash(head) = <<>> THEN head ELSE RStripSlash(head)

\* os.path.join(a, b)
PathJoin(a, b) ==
    IF StartsWith(b, <<"/">>) THEN b
    ELSE IF a = <<>> \/ a[Len(a)] = "/" THEN a \o b
    ELSE a \o <<"/">> \o b

\* the components of an absolute path with "." and ".." resolved
\* (os.path.normpath of an absolute path; also the kernel's path walk)
RECURSIVE Resolve(_, _)
Resolve(comps, acc) ==
    IF comps = <<>> THEN acc
    ELSE LET c == Head(comps)
         IN  IF c = Dot THEN Resolve(Tail(comps), acc)
             ELSE IF c = DotDot
                  THEN Resolve(Tail(comps),
                               IF acc = <<>> THEN <<>>
                               ELSE SubSeq(acc, 1, Len(acc) - 1))
             ELSE Resolve(Tail(comps), Append(acc, c))

\* os.path.abspath of an absolute path
AbsPath(p) == <<"/">> \o JoinComponents(Resolve(Components(p), <<>>))

\* len(os.path.commonprefix([a, b])) on component lists
CommonLen(a, b) ==
    LET n == IF Len(a) < Len(b) THEN Len(a) ELSE Len(b)
        same == {k \in 0..n : \A j \in 1..k : a[j] = b[j]}
    IN  CHOOSE k \in same : \A j \in same : j <= k

\* os.path.relpath(path, start), both absolute
RelPath(path, start) ==
    LET start_list == Resolve(Components(start), <<>>)
        path_list  == Resolve(Components(path), <<>>)
        i          == CommonLen(start_list, path_list)
        rel_list   == [k \in 1..(Len(start_list) - i) |-> DotDot]
                          \o SubSeq(path_list, i + 1, Len(path_list))
    IN  IF rel_list = <<>> THEN Dot ELSE JoinComponents(rel_list)

(***************************************************************************)
(* SyncEngine: the path mapper and the sync policy.                        *)
(***************************************************************************)
\* the directory of a mapping on the remote tree
RemoteDir(cfg, dir_config) ==
    PathJoin(cfg.mount_point, dir_config.remote_path)

\* SyncEngine._get_remote_path: the loop over sync_directories from index i
RECURSIVE GetRemotePathFrom(_, _, _)
GetRemotePathFrom(cfg, local_path, i) ==
    IF i > Len(cfg.sync_directories) THEN None
    ELSE LET dir_config == cfg.sync_directories[i]
             local_dir  == dir_config.local_path
         IN  IF StartsWith(local_path, local_dir)
             THEN PathJoin(RemoteDir(cfg, dir_config),
                           RelPath(local_path, local_dir))
             ELSE GetRemotePathFrom(cfg, local_path, i + 1)

\* a mapper in which the last matching mapping wins
RECURSIVE GetRemotePathLast(_, _, _)
GetRemotePathLast(cfg, local_path, i) ==
    IF i < 1 THEN None
    ELSE IF StartsWith(local_path, cfg.sync_directories[i].local_path)
    THEN PathJoin(RemoteDir(cfg, cfg.sync_directories[i]),
                  RelPath(local_path, cfg.sync_directories[i].local_path))
    ELSE GetRemotePathLast(cfg, local_path, i - 1)

GetRemotePathLastMatch(cfg, local_path) ==
    GetRemotePathLast(cfg, local_path, Len(cfg.sync_directories))

GetRemotePath(cfg, local_path) == GetRemotePathFrom(cfg, local_path, 1)

\* one pattern of _should_sync_file against the file name
PatternExcludes(pattern, filename) ==
    IF StartsWith(pattern, <<"*">>)
    THEN EndsWith(filename, SubSeq(pattern, 2, Len(pattern)))
    ELSE IF EndsWith(pattern, <<"*">>)
    THEN StartsWith(filename, SubSeq(pattern, 1, Len(pattern) - 1))
    ELSE pattern = filename

\* the inner loop of _should_sync_file: TRUE when a pattern from j on excludes
RECURSIVE PatternsExclude(_, _, _)
PatternsExclude(patterns, filename, j) ==
    IF j > Len(patterns) THEN FALSE
    ELSE IF PatternExcludes(patterns[j], filename) THEN TRUE
    ELSE PatternsExclude(patterns, filename, j + 1)

\* the outer loop of _should_sync_file over sync_directories from index i
RECURSIVE ShouldSyncFrom(_, _, _)
ShouldSyncFrom(cfg, filename, i) ==
    IF i > Len(cfg.sync_directories) THEN TRUE
    ELSE IF PatternsExclude(cfg.sync_directories[i].exclude_patterns, filename, 1)
    THEN FALSE
    ELSE ShouldSyncFrom(cfg, filename, i + 1)

\* a policy that matches the patterns against the whole path
ShouldSyncWholePath(cfg, file_path) == ShouldSyncFrom(cfg, file_path, 1)

\* SyncEngine._should_sync_file
ShouldSyncFile(cfg, file_path) == ShouldSyncFrom(cfg, Basename(file_path), 1)

(***************************************************************************)
(* The file system as the engine's calls see it.  A state st is a record   *)
(* with fields fs and dirs; an operation returns [fs, dirs, ok], ok FALSE  *)
(* standing for the OSError the call raises.                               *)
(***************************************************************************)
\* the node the first k components of an absolute path lead to
Node(comps, k) == <<"/">> \o JoinComponents(Resolve(SubSeq(comps, 1, k), <<>>))

\* every directory on the way to p exists (the kernel's path walk)
Reachable(st, p) ==
    LET comps == Components(p)
    IN  \A k \in 0..(Len(comps) - 1) : Node(comps, k) \in st.dirs

IsFile(st, p) == Reachable(st, p) /\ AbsPath(p) \in DOMAIN st.fs

IsDir(st, p) == Reachable(st, p) /\ AbsPath(p) \in st.dirs

\* os.path.exists
Exists(st, p) == IsFile(st, p) \/ IsDir(st, p)

Ok(st) == [fs |-> st.fs, dirs |-> st.dirs, ok |-> TRUE]

Raise(st) == [fs |-> st.fs, dirs |-> st.dirs, ok |-> FALSE]

\* os.makedirs(name, exist_ok=True): component by component from the k-th
RECURSIVE MakedirsFrom(_, _, _)
MakedirsNode(st, comps, k, node) ==
    IF node \in DOMAIN st.fs THEN Raise(st)
    ELSE MakedirsFrom([fs |-> st.fs, dirs |-> st.dirs \cup {node}], comps, k + 1)

MakedirsFrom(st, comps, k) ==
    IF k > Len(comps) THEN Ok(st)
    ELSE MakedirsNode(st, comps, k, Node(comps, k))

Makedirs(st, name) == MakedirsFrom(st, Components(name), 1)

\* writing content to the file at absolute path d (open(d, 'wb') and write)
WriteAt(st, d, content) ==
    IF Dirname(d) \notin st.dirs \/ d \in st.dirs THEN Raise(st)
    ELSE Ok([fs   |-> [q \in DOMAIN st.fs \cup {d} |->
                          IF q = d THEN content ELSE st.fs[q]],
             dirs |-> st.dirs])

WriteFile(st, dst, content) ==
    IF Reachable(st, dst) THEN WriteAt(st, AbsPath(dst), content) ELSE Raise(st)

\* the destination of shutil.copy2 and shutil.move: inside dst when dst is a
\* directory
RealDst(st, src, dst) ==
    IF IsDir(st, dst) THEN PathJoin(dst, Basename(src)) ELSE dst

\* a copy that appends to an existing destination instead of replacing it
Copy2Append(st, src, dst) ==
    IF ~IsFile(st, src) THEN Raise(st)
    ELSE WriteFile(st, RealDst(st, src, dst),
                   IF IsFile(st, RealDst(st, src, dst))
                   THEN st.fs[AbsPath(RealDst(st, src, dst))] + st.fs[AbsPath(src)]
                   ELSE st.fs[AbsPath(src)])

\* shutil.copy2(src, dst)
Copy2(st, src, dst) ==
    IF ~IsFile(st, src) THEN Raise(st)
    ELSE WriteFile(st, RealDst(st, src, dst), st.fs[AbsPath(src)])

\* os.remove(path) / os.unlink(path)
RemoveAt(st, d) ==
    Ok([fs |-> [q \in DOMAIN st.fs \ {d} |-> st.fs[q]], dirs |-> st.dirs])

Remove(st, path) ==
    IF ~IsFile(st, path) THEN Raise(st) ELSE RemoveAt(st, AbsPath(path))

\* the second half of shutil.move's copy-and-unlink
UnlinkAfterCopy(c, src) == IF c.ok THEN Remove(c, src) ELSE c

\* shutil.move(src, dst) of a regular file: os.rename, or copy2 and unlink
\* across file systems
MoveTo(st, src, real_dst) ==
    IF ~IsFile(st, src) THEN Raise(st)
    ELSE IF AbsPath(src) = AbsPath(real_dst) THEN Ok(st)
    ELSE UnlinkAfterCopy(Copy2(st, src, real_dst), src)

Move(st, src, dst) ==
    IF IsDir(st, dst) /\ Exists(st, PathJoin(dst, Basename(src))) THEN Raise(st)
    ELSE MoveTo(st, src, RealDst(st, src, dst))

(***************************************************************************)
(* SyncEngine.sync_file.  The try block's exceptions are caught and        *)
(* logged: the result is the file system the call leaves behind.           *)
(***************************************************************************)
\* a step that runs only when the one before it did not raise
CopyAfterMakedirs(m, file_path, remote_path) ==
    IF m.ok THEN Copy2(m, file_path, remote_path) ELSE m

\* action 'created' or 'modified'
SyncCopy(st, file_path, remote_path) ==
    CopyAfterMakedirs(Makedirs(st, Dirname(remote_path)), file_path, remote_path)

\* action 'deleted'
SyncDelete(st, remote_path) ==
    IF Exists(st, remote_path) THEN Remove(st, remote_path) ELSE Ok(st)

MoveAfterMakedirs(m, remote_path, remote_dest) ==
    IF m.ok THEN Move(m, remote_path, remote_dest) ELSE m

MoveToRemote(st, remote_path, remote_dest) ==
    IF ~Truthy(remote_dest) THEN Ok(st)
    ELSE MoveAfterMakedirs(Makedirs(st, Dirname(remote_dest)),
                           remote_path, remote_dest)

\* action 'moved'
SyncMove(cfg, st, remote_path, dest_path) ==
    IF ~Truthy(dest_path) THEN Ok(st)
    ELSE MoveToRemote(st, remote_path, GetRemotePath(cfg, dest_path))

\* the try block of sync_file
SyncAction(cfg, st, action, file_path, dest_path, remote_path) ==
    IF ~Truthy(remote_path) THEN Ok(st)
    ELSE CASE action \in {"created", "modified"} ->
                  SyncCopy(st, file_path, remote_path)
           [] action = "deleted" -> SyncDelete(st, remote_path)
           [] action = "moved" -> SyncMove(cfg, st, remote_path, dest_path)
           [] OTHER -> Ok(st)

\* remote_path = dest_path or self._get_remote_path(file_path)
SyncTarget(cfg, file_path, dest_path) ==
    IF Truthy(dest_path) THEN dest_path ELSE GetRemotePath(cfg, file_path)

Caught(r) == Ok(r)

SyncFile(cfg, st, action, file_path, dest_path) ==
    IF ~ShouldSyncFile(cfg, file_path) THEN Ok(st)
    ELSE Caught(SyncAction(cfg, st, action, file_path, dest_path,
                           SyncTarget(cfg, file_path, dest_path)))

(***************************************************************************)
(* SyncEngine.sync_directory and SyncEngine.full_sync.  Nothing here is    *)
(* inside a try block: an OSError of os.makedirs ends the run.             *)
(***************************************************************************)
\* the remote counterpart sync_directory computes for local_path
WalkRemote(local_path, local_dir, remote_dir) ==
    PathJoin(remote_dir, RelPath(local_path, local_dir))

\* "for dir_name in dirs": the sub-directories of one root, in listing order
RECURSIVE WalkDirs(_, _, _, _)
WalkDirsNext(m, rest, local_dir, remote_dir) ==
    IF m.ok THEN WalkDirs(m, rest, local_dir, remote_dir) ELSE m

WalkDir(st, d, todo, local_dir, remote_dir) ==
    WalkDirsNext(Makedirs(st, WalkRemote(d, local_dir, remote_dir)),
                 todo \ {d}, local_dir, remote_dir)

WalkDirs(st, todo, local_dir, remote_dir) ==
    IF todo = {} THEN Ok(st)
    ELSE WalkDir(st, CHOOSE x \in todo : TRUE, todo, local_dir, remote_dir)

\* "for file_name in files": the files of one root, in listing order
RECURSIVE WalkFiles(_, _, _, _, _)
\* a walk that copies a file only when the store holds no record for it
WalkFileIfStale(cfg, st, f, todo, local_dir, remote_dir) ==
    WalkFiles(cfg,
              IF ShouldSyncFile(cfg, f) /\ f \notin DOMAIN db
              THEN SyncFile(cfg, st, "created", f,
                            WalkRemote(f, local_dir, remote_dir))
              ELSE Ok(st),
              todo \ {f}, local_dir, remote_dir)

WalkFile(cfg, st, f, todo, local_dir, remote_dir) ==
    WalkFiles(cfg,
              IF ShouldSyncFile(cfg, f)
              THEN SyncFile(cfg, st, "created", f,
                            WalkRemote(f, local_dir, remote_dir))
              ELSE Ok(st),
              todo \ {f}, local_dir, remote_dir)

WalkFiles(cfg, st, todo, local_dir, remote_dir) ==
    IF todo = {} THEN Ok(st)
    ELSE WalkFile(cfg, st, CHOOSE x \in todo : TRUE, todo, local_dir, remote_dir)

\* os.walk(local_dir), top down: one root, then each of its sub-directories
RECURSIVE Walk(_, _, _, _, _)
WalkRest(cfg, c, rest, local_dir, remote_dir) ==
    IF c.ok THEN Walk(cfg, c, rest, local_dir, remote_dir) ELSE c

WalkBelow(cfg, b, subs, rest, local_dir, remote_dir) ==
    WalkRest(cfg, IF b.ok THEN Walk(cfg, b, subs, local_dir, remote_dir) ELSE b,
             rest, local_dir, remote_dir)

WalkRootFiles(cfg, a, files, subs, rest, local_dir, remote_dir) ==
    WalkBelow(cfg,
              IF a.ok THEN WalkFiles(cfg, a, files, local_dir, remote_dir) ELSE a,
              subs, rest, local_dir, remote_dir)

WalkRoot(cfg, st, root, subs, rest, local_dir, remote_dir) ==
    WalkRootFiles(cfg, WalkDirs(st, subs, local_dir, remote_dir),
                  {f \in DOMAIN st.fs : Dirname(f) = root},
                  subs, rest, local_dir, remote_dir)

WalkOne(cfg, st, root, rest, local_dir, remote_dir) ==
    WalkRoot(cfg, st, root,
             {d \in st.dirs : d # <<"/">> /\ Dirname(d) = root},
             rest, local_dir, remote_dir)

Walk(cfg, st, roots, local_dir, remote_dir) ==
    IF roots = {} THEN Ok(st)
    ELSE WalkOne(cfg, st, CHOOSE x \in roots : TRUE,
                 roots \ {CHOOSE x \in roots : TRUE}, local_dir, remote_dir)

WalkAfterMakedirs(cfg, m, local_dir, remote_dir) ==
    IF ~m.ok THEN m
    ELSE IF IsDir(m, local_dir)
    THEN Walk(cfg, m, {AbsPath(local_dir)}, local_dir, remote_dir)
    ELSE m

SyncDirectory(cfg, st, local_dir, remote_dir) ==
    WalkAfterMakedirs(cfg, Makedirs(st, remote_dir), local_dir, remote_dir)

\* the loop of full_sync over sync_directories from index i
RECURSIVE FullSyncFrom(_, _, _)
FullSyncNext(cfg, s, i) == IF s.ok THEN FullSyncFrom(cfg, s, i) ELSE s

\* os.path.exists(None) raises TypeError: an entry without local_path ends
\* the run
FullSyncMapping(cfg, st, dir_config) ==
    IF dir_config.local_path = None THEN Raise(st)
    ELSE IF Exists(st, dir_config.local_path)
    THEN SyncDirectory(cfg, st, dir_config.local_path, RemoteDir(cfg, dir_config))
    ELSE Ok(st)

FullSyncFrom(cfg, st, i) ==
    IF i > Len(cfg.sync_directories) THEN Ok(st)
    ELSE FullSyncNext(cfg, FullSyncMapping(cfg, st, cfg.sync_directories[i]), i + 1)

FullSync(cfg, st) == FullSyncFrom(cfg, st, 1)

(***************************************************************************)
(* The configuration and the local tree of the engine's specification.     *)
(***************************************************************************)
\* mount point /m; /d -> r excluding *.l; /n -> n, a local root never there
MainConfig ==
    [mount_point |-> <<"/", "m">>,
     sync_directories |-> <<
        [local_path |-> <<"/", "d">>, remote_path |-> <<"r">>,
         exclude_patterns |-> << <<"*", ".", "l">> >>],
        [local_path |-> <<"/", "n">>, remote_path |-> <<"n">>,
         exclude_patterns |-> <<>>] >>]

FileA == <<"/", "d", "/", "a">>
FileLog == <<"/", "d", "/", "x", ".", "l">>
FileSub == <<"/", "d", "/", "s", "/", "c">>

\* the local files the watched tree may hold, and its sub-directories
LocalFiles == {FileA, FileLog, FileSub}
LocalDirs == {<<"/", "d", "/", "s">>}

Data == 1..MaxData

NoFiles == [q \in {} |-> 0]

Here == [fs |-> fs, dirs |-> dirs]

\* ChangeEvent: Created(path), Modified(path), Deleted(path), Moved(from, to)
Event(action, src, dest) == [action |-> action, src |-> src, dest |-> dest]

NoEvent == Event("none", None, None)

NoCall == [op |-> "none", path |-> None, ret |-> None]

\* the files and directories below the mount point
RemoteFiles(st) ==
    {q \in DOMAIN st.fs : StartsWith(q, MainConfig.mount_point \o <<"/">>)}

RemoteTree(st) ==
    [files |-> [q \in RemoteFiles(st) |-> st.fs[q]],
     dirs  |-> {d \in st.dirs : StartsWith(d, MainConfig.mount_point \o <<"/">>)}]

\* the rows the metadata database file may hold when the process starts
\* (_init_db keeps an existing table: CREATE TABLE IF NOT EXISTS)
StartRows ==
    {[q \in S |-> [modified_time |-> 0, size |-> 1]] : S \in SUBSET {FileA}}

\* history: nothing handled last, no full_sync run just before
NoTree == [files |-> NoFiles, dirs |-> {}]

\* no monitor and no script has been started
NothingRuns ==
    /\ mounted = FALSE
    /\ observers = <<>>
    /\ pc = <<>>

NoHist == [last |-> NoEvent, synced |-> FALSE, runs |-> 0, prev |-> NoTree]

Init ==
    /\ config = MainConfig
    /\ fs = NoFiles
    /\ dirs = {<<"/">>, <<"/", "d">>, <<"/", "m">>}
    /\ pending = <<>>
    /\ db \in StartRows
    /\ stats = NoFiles
    /\ clock = 0
    /\ call = NoCall
    /\ hist = NoHist
    /\ NothingRuns

(***************************************************************************)
(* The watched tree changes and the matching change event is produced.     *)
(***************************************************************************)
Enqueue(e) ==
    /\ Len(pending) < MaxQueue
    /\ pending' = Append(pending, e)

\* a local change ends a run of full_sync calls "with no local change"
LocalChanged == hist' = NoHist

LocalCreate(p, d) ==
    /\ p \notin DOMAIN fs
    /\ Dirname(p) \in dirs
    /\ fs' = [q \in DOMAIN fs \cup {p} |-> IF q = p THEN d ELSE fs[q]]
    /\ Enqueue(Event("created", p, None))
    /\ LocalChanged
    /\ UNCHANGED <<mounted, observers, pc, config, dirs, db, stats, clock, call>>

LocalModify(p, d) ==
    /\ p \in DOMAIN fs
    /\ fs[p] # d
    /\ fs' = [fs EXCEPT ![p] = d]
    /\ Enqueue(Event("modified", p, None))
    /\ LocalChanged
    /\ UNCHANGED <<mounted, observers, pc, config, dirs, db, stats, clock, call>>

LocalDelete(p) ==
    /\ p \in DOMAIN fs
    /\ fs' = [q \in DOMAIN fs \ {p} |-> fs[q]]
    /\ Enqueue(Event("deleted", p, None))
    /\ LocalChanged
    /\ UNCHANGED <<mounted, observers, pc, config, dirs, db, stats, clock, call>>

\* os.rename(p, q) by the user: q is replaced when it exists
LocalMove(p, q) ==
    /\ p \in DOMAIN fs
    /\ q # p
    /\ Dirname(q) \in dirs
    /\ fs' = [x \in (DOMAIN fs \ {p}) \cup {q} |-> IF x = q THEN fs[p] ELSE fs[x]]
    /\ Enqueue(Event("moved", p, q))
    /\ LocalChanged
    /\ UNCHANGED <<mounted, observers, pc, config, dirs, db, stats, clock, call>>

LocalMkdir(d) ==
    /\ d \notin dirs
    /\ Dirname(d) \in dirs
    /\ dirs' = dirs \cup {d}
    /\ LocalChanged
    /\ UNCHANGED <<mounted, observers, pc, config, fs, pending, db, stats, clock, call>>

(***************************************************************************)
(* The engine's entry points.                                              *)
(***************************************************************************)
\* the remote counterpart of a local path is a file
RemoteIsFile(st, p) ==
    /\ Truthy(GetRemotePath(config, p))
    /\ IsFile(st, GetRemotePath(config, p))

\* the file system a call leaves behind
Becomes(r) ==
    /\ fs' = r.fs
    /\ dirs' = r.dirs

\* the next event is handed to sync_file: sync_file(action, path) and, for a
\* move, sync_file('moved', src_path, dest_path)
Reconcile ==
    /\ pending # <<>>
    /\ Becomes(SyncFile(config, Here, Head(pending).action,
                         Head(pending).src, Head(pending).dest))
    /\ hist' = [NoHist EXCEPT !.last = Head(pending),
                              !.synced = RemoteIsFile(Here, Head(pending).src)]
    /\ pending' = Tail(pending)
    /\ UNCHANGED <<mounted, observers, pc, config, db, stats, clock, call>>

\* SyncEngine.full_sync()
FullSyncRun ==
    /\ Becomes(FullSync(config, Here))
    /\ hist' = [NoHist EXCEPT !.runs = IF hist.runs < 2 THEN hist.runs + 1 ELSE 2,
                              !.prev = RemoteTree(Here)]
    /\ UNCHANGED <<mounted, observers, pc, config, pending, db, stats, clock, call>>

Next ==
    \/ \E p \in LocalFiles, d \in Data : LocalCreate(p, d)
    \/ \E p \in LocalFiles, d \in Data : LocalModify(p, d)
    \/ \E p \in LocalFiles : LocalDelete(p)
    \/ \E p \in LocalFiles, q \in LocalFiles : LocalMove(p, q)
    \/ \E d \in LocalDirs : LocalMkdir(d)
    \/ Reconcile
    \/ FullSyncRun

Spec == Init /\ [][Next]_vars

(***************************************************************************)
(* full_sync on its own (scripts/sync_now.py): the watched tree changes    *)
(* with no monitor running, and full_sync is called any number of times.   *)
(***************************************************************************)
\* a file of the watched tree is created or rewritten
TreeWrite(p, d) ==
    /\ Dirname(p) \in dirs
    /\ p \in DOMAIN fs => fs[p] # d
    /\ fs' = [q \in DOMAIN fs \cup {p} |-> IF q = p THEN d ELSE fs[q]]
    /\ LocalChanged
    /\ UNCHANGED <<mounted, observers, pc, config, dirs, pending, db, stats, clock, call>>

\* a file of the watched tree is removed
TreeDelete(p) ==
    /\ p \in DOMAIN fs
    /\ fs' = [q \in DOMAIN fs \ {p} |-> fs[q]]
    /\ LocalChanged
    /\ UNCHANGED <<mounted, observers, pc, config, dirs, pending, db, stats, clock, call>>

NextFull ==
    \/ \E p \in LocalFiles, d \in Data : TreeWrite(p, d)
    \/ \E p \in LocalFiles : TreeDelete(p)
    \/ \E d \in LocalDirs : LocalMkdir(d)
    \/ FullSyncRun

SpecFull == Init /\ [][NextFull]_vars

(***************************************************************************)
(* Properties of the engine, checked under Spec.                           *)
(***************************************************************************)
\* the local files the policy lets through and the mapper resolves
Syncable(st) ==
    {p \in DOMAIN st.fs \cap LocalFiles :
        ShouldSyncFile(config, p) /\ Truthy(GetRemotePath(config, p))}

\* the remote tree holds exactly the counterparts of the syncable local files,
\* each with its local file's content
Converged(st) ==
    /\ {q \in RemoteFiles(st) : ShouldSyncFile(config, q)}
           = {AbsPath(GetRemotePath(config, p)) : p \in Syncable(st)}
    /\ \A p \in Syncable(st) :
           /\ IsFile(st, GetRemotePath(config, p))
           /\ st.fs[AbsPath(GetRemotePath(config, p))] = st.fs[p]

\* C1: once every Created/Modified/Deleted/Moved event has been handled by
\* sync_file, the non-excluded files of the remote tree are exactly the
\* non-excluded local files at their mapped paths, with the same content.
C1_Convergence == pending = <<>> => Converged(Here)

\* the last step handled this kind of event for a path that was synced before
\* (its remote counterpart was a file) and that the policy lets through
Handled(action) ==
    /\ hist.last.action = action
    /\ hist.synced
    /\ ShouldSyncFile(config, hist.last.src)

\* C2: after a Moved event from A to B is handled (both resolvable, A synced
\* before), no file is at A's remote counterpart, a file is at B's, and the
\* metadata store holds a record for B and none for A.
C2_MovePropagates ==
    (/\ Handled("moved")
     /\ ShouldSyncFile(config, hist.last.dest)
     /\ Truthy(GetRemotePath(config, hist.last.dest)))
    => /\ ~RemoteIsFile(Here, hist.last.src)
       /\ RemoteIsFile(Here, hist.last.dest)
       /\ hist.last.dest \in DOMAIN db
       /\ hist.last.src \notin DOMAIN db

C4_FullSyncIdempotent == hist.runs = 2 => RemoteTree(Here) = hist.prev

\* C4's case: two runs in a row over a tree with a synced file in a
\* sub-directory and an excluded file
C4_Witness ==
    /\ hist.runs = 2
    /\ FileLog \in DOMAIN fs
    /\ RemoteIsFile(Here, FileSub)
    /\ RemoteIsFile(Here, FileA)

\* C8: no file of the remote tree has a name that an exclude pattern matches.
C8_NoExcludedRemote ==
    \A q \in RemoteFiles(Here) : ShouldSyncFile(config, q)

(***************************************************************************)
(* The path mapper and the sync policy as pure functions: SpecPolicy draws *)
(* a configuration and calls them on paths.                                *)
(***************************************************************************)
MaxMappings == 2    \* sync_directories has at most this many entries

PatTmp == <<"*", ".", "t", "m", "p">>
PatCache == <<"c", "a", "c", "h", "e", "*">>
PatSecret == <<"s", "e", "c", "r", "e", "t", ".", "t", "x", "t">>
PatAll == <<"*">>

MapD == [local_path |-> <<"/", "d">>, remote_path |-> <<"r">>,
         exclude_patterns |-> <<PatTmp, PatCache>>]
MapS == [local_path |-> <<"/", "d", "/", "s">>, remote_path |-> <<"q">>,
         exclude_patterns |-> <<PatSecret>>]
MapE == [local_path |-> <<"/", "e">>, remote_path |-> <<"e", "/", "f">>,
         exclude_patterns |-> <<PatAll>>]
MapN == [local_path |-> <<"/", "n">>, remote_path |-> <<"n">>,
         exclude_patterns |-> <<>>]

PolicyMappings == {MapD, MapS, MapE, MapN}

PolicyConfigs ==
    {[mount_point |-> <<"/", "m">>, sync_directories |-> sd] :
        sd \in UNION {[1..n -> PolicyMappings] : n \in 0..MaxMappings}}

PathTmp == <<"/", "d", "/", "a", ".", "t", "m", "p">>
PathCache == <<"/", "d", "/", "c", "a", "c", "h", "e", "_", "1", ".", "t", "x", "t">>
PathSecret == <<"/", "d", "/", "s", "e", "c", "r", "e", "t", ".", "t", "x", "t">>
PathSecretBak == <<"/", "d", "/", "s", "e", "c", "r", "e", "t", ".", "t", "x", "t", ".", "b", "a", "k">>
PathSubCache == <<"/", "d", "/", "s", "/", "c", "a", "c", "h", "e">>
PathSubC == <<"/", "d", "/", "s", "/", "c">>
PathSibling == <<"/", "d", "b", "/", "c">>
PathRoot == <<"/", "d">>
PathOther == <<"/", "x", "/", "t", "m", "p">>
PathCacheDir == <<"/", "c", "a", "c", "h", "e", "/", "a">>

PolicyPaths ==
    {PathTmp, PathCache, PathSecret, PathSecretBak, PathSubCache, PathSubC,
     PathSibling, PathRoot, PathOther, PathCacheDir}

InitPolicy ==
    /\ config \in PolicyConfigs
    /\ fs = NoFiles
    /\ dirs = {}
    /\ pending = <<>>
    /\ db = NoFiles
    /\ stats = NoFiles
    /\ clock = 0
    /\ call = NoCall
    /\ hist = NoHist
    /\ NothingRuns

CallShouldSync(p) ==
    /\ call' = [op |-> "should_sync", path |-> p, ret |-> ShouldSyncFile(config, p)]
    /\ UNCHANGED <<mounted, observers, pc, config, fs, dirs, pending, db, stats, clock, hist>>

CallGetRemotePath(p) ==
    /\ call' = [op |-> "get_remote_path", path |-> p,
                ret |-> GetRemotePath(config, p)]
    /\ UNCHANGED <<mounted, observers, pc, config, fs, dirs, pending, db, stats, clock, hist>>

NextPolicy ==
    \/ \E p \in PolicyPaths : CallShouldSync(p)
    \/ \E p \in PolicyPaths : CallGetRemotePath(p)

SpecPolicy == InitPolicy /\ [][NextPolicy]_vars

(***************************************************************************)
(* Properties of the sync policy and the path mapper, under SpecPolicy.    *)
(***************************************************************************)
\* the last path component: the suffix without "/" that follows a "/"
LastComponent(path) ==
    CHOOSE n \in {SubSeq(path, k + 1, Len(path)) : k \in 0..Len(path)} :
        /\ \A k \in 1..Len(n) : n[k] # "/"
        /\ Len(n) = Len(path) \/ path[Len(path) - Len(n)] = "/"

\* a pattern matches a name: "*rest" names ending with rest, "rest*" names
\* starting with rest, any other pattern the identical name
PatternMatches(pattern, name) ==
    IF pattern # <<>> /\ pattern[1] = "*"
    THEN \E k \in 0..Len(name) : SubSeq(name, k + 1, Len(name)) = Tail(pattern)
    ELSE IF pattern # <<>> /\ pattern[Len(pattern)] = "*"
    THEN \E k \in 0..Len(name) :
             SubSeq(name, 1, k) = SubSeq(pattern, 1, Len(pattern) - 1)
    ELSE name = pattern

SomePatternMatches(cfg, name) ==
    \E i \in 1..Len(cfg.sync_directories) :
        \E j \in 1..Len(cfg.sync_directories[i].exclude_patterns) :
            PatternMatches(cfg.sync_directories[i].exclude_patterns[j], name)

\* C7: _should_sync_file(path) looks at the file name only and is false
\* exactly when some exclude pattern of some mapping matches the name;
\* '*.tmp' excludes a.tmp, 'cache*' excludes cache_1.txt, 'secret.txt'
\* excludes secret.txt and not secret.txt.bak.
C7_ExclusionPolicy ==
    call.op = "should_sync" =>
        /\ call.ret = ~SomePatternMatches(config, LastComponent(call.path))
        /\ (\E i \in 1..Len(config.sync_directories) :
                config.sync_directories[i] = MapD)
           => /\ call.path = PathTmp => call.ret = FALSE
              /\ call.path = PathCache => call.ret = FALSE
        /\ config.sync_directories = <<MapS>>
           => /\ call.path = PathSecret => call.ret = FALSE
              /\ call.path = PathSecretBak => call.ret = TRUE
              /\ call.path = PathSubCache => call.ret = TRUE
        /\ config.sync_directories = <<MapD>>
           => /\ call.path = PathSubCache => call.ret = FALSE
              /\ call.path = PathCacheDir => call.ret = TRUE
              /\ call.path = PathOther => call.ret = TRUE

\* C7's case: a pattern of a mapping other than the path's own excludes it
C7_Witness ==
    /\ call.op = "should_sync"
    /\ config.sync_directories = <<MapN, MapD>>
    /\ call.path = PathCache
    /\ call.ret = FALSE

\* the mappings whose local root is a string prefix of the path
PrefixMappings(cfg, path) ==
    {i \in 1..Len(cfg.sync_directories) :
        LET root == cfg.sync_directories[i].local_path
        IN  /\ Len(root) <= Len(path)
            /\ \A k \in 1..Len(root) : path[k] = root[k]}

\* mount_point / remote_path / (path relative to the root) of the first of them
FirstPrefixRemote(cfg, path) ==
    IF PrefixMappings(cfg, path) = {} THEN None
    ELSE LET i == CHOOSE x \in PrefixMappings(cfg, path) :
                      \A y \in PrefixMappings(cfg, path) : x <= y
             m == cfg.sync_directories[i]
         IN  cfg.mount_point \o <<"/">> \o m.remote_path \o <<"/">>
                 \o RelPath(path, m.local_path)

\* C9: _get_remote_path(path) takes the first mapping, in configuration
\* order, whose local root is a string prefix of path and returns
\* mount_point / remote_path / (path relative to that root); None when no
\* local root is a prefix.
C9_PathMapping ==
    call.op = "get_remote_path" =>
        /\ call.ret = FirstPrefixRemote(config, call.path)
        /\ (config.sync_directories = <<MapD, MapS>> /\ call.path = PathSubC)
           => call.ret = <<"/", "m", "/", "r", "/", "s", "/", "c">>
        /\ (config.sync_directories = <<MapS, MapD>> /\ call.path = PathSubC)
           => call.ret = <<"/", "m", "/", "q", "/", "c">>
        /\ (config.sync_directories = <<MapD>> /\ call.path = PathSibling)
           => call.ret = <<"/", "m", "/", "r", "/", ".", ".", "/", "d", "b", "/", "c">>
        /\ (config.sync_directories = <<MapD>> /\ call.path = PathRoot)
           => call.ret = <<"/", "m", "/", "r", "/", ".">>
        /\ (config.sync_directories = <<MapS, MapE>> /\ call.path = PathTmp)
           => call.ret = None

\* C9's case: two roots are prefixes of the path and the first, shorter one wins
C9_Witness ==
    /\ call.op = "get_remote_path"
    /\ config.sync_directories = <<MapD, MapS>>
    /\ call.path = PathSubC
    /\ call.ret = <<"/", "m", "/", "r", "/", "s", "/", "c">>

(***************************************************************************)
(* MetadataDB (core/metadata_db.py).  A row of table "files" is            *)
(* [modified_time, size]; the file system is what os.path.exists and       *)
(* os.stat report: stats maps each existing file to [mtime, size].         *)
(***************************************************************************)
\* metadata_db.py imports os, json, logging, sqlite3 and datetime, and not
\* time: evaluating time.time() raises NameError
TimeDefined == FALSE

\* the UPDATE or INSERT of update_file_metadata, and its commit.  The
\* statement's parameters hold time.time(): with no such name the NameError
\* is raised before the statement runs, and is caught and logged.
UpsertRow(rows, file_path, stat) ==
    IF ~TimeDefined THEN rows
    ELSE [q \in DOMAIN rows \cup {file_path} |->
             IF q = file_path
             THEN [modified_time |-> stat.mtime, size |-> stat.size]
             ELSE rows[q]]

\* MetadataDB.delete_file_metadata: DELETE FROM files WHERE path = ?
DeleteRow(rows, file_path) == [q \in DOMAIN rows \ {file_path} |-> rows[q]]

\* MetadataDB.update_file_metadata
UpdateRows(rows, files, file_path) ==
    IF file_path \notin DOMAIN files THEN DeleteRow(rows, file_path)
    ELSE UpsertRow(rows, file_path, files[file_path])

\* MetadataDB.get_file_metadata returns the row's dict and not None
HasRow(rows, file_path) == file_path \in DOMAIN rows

\* a needs_sync that reports a vanished file with a record as stale
NeedsSyncDefensive(rows, files, file_path) ==
    IF file_path \notin DOMAIN files THEN HasRow(rows, file_path)
    ELSE IF ~HasRow(rows, file_path) THEN TRUE
    ELSE \/ files[file_path].mtime > rows[file_path].modified_time
         \/ files[file_path].size # rows[file_path].size

\* MetadataDB.needs_sync
NeedsSync(rows, files, file_path) ==
    IF file_path \notin DOMAIN files THEN FALSE
    ELSE IF ~HasRow(rows, file_path) THEN TRUE
    ELSE \/ files[file_path].mtime > rows[file_path].modified_time
         \/ files[file_path].size # rows[file_path].size

MetaPaths == {FileA, FileSub}

\* the rows the database file may hold when the process starts
MetaStartRows ==
    UNION {[S -> [modified_time : {0, 1}, size : {1}]] : S \in SUBSET MetaPaths}

InitMeta ==
    /\ config = MainConfig
    /\ fs = NoFiles
    /\ dirs = {}
    /\ pending = <<>>
    /\ db \in MetaStartRows
    /\ stats = NoFiles
    /\ clock = 0
    /\ call = NoCall
    /\ hist = NoHist
    /\ NothingRuns

\* the clock the file system stamps st_mtime from advances
Tick ==
    /\ clock < MaxClock
    /\ clock' = clock + 1
    /\ call' = NoCall
    /\ UNCHANGED <<mounted, observers, pc, config, fs, dirs, pending, db, stats, hist>>

\* the file is created or rewritten with size bytes
FileWrite(p, size) ==
    /\ stats' = [q \in DOMAIN stats \cup {p} |->
                    IF q = p THEN [mtime |-> clock, size |-> size] ELSE stats[q]]
    /\ call' = [op |-> "write", path |-> p, ret |-> None]
    /\ UNCHANGED <<mounted, observers, pc, config, fs, dirs, pending, db, clock, hist>>

FileDelete(p) ==
    /\ p \in DOMAIN stats
    /\ stats' = [q \in DOMAIN stats \ {p} |-> stats[q]]
    /\ call' = [op |-> "unlink", path |-> p, ret |-> None]
    /\ UNCHANGED <<mounted, observers, pc, config, fs, dirs, pending, db, clock, hist>>

UpdateFileMetadata(p) ==
    /\ db' = UpdateRows(db, stats, p)
    /\ call' = [op |-> "update_file_metadata", path |-> p, ret |-> None]
    /\ UNCHANGED <<mounted, observers, pc, config, fs, dirs, pending, stats, clock, hist>>

DeleteFileMetadata(p) ==
    /\ db' = DeleteRow(db, p)
    /\ call' = [op |-> "delete_file_metadata", path |-> p, ret |-> None]
    /\ UNCHANGED <<mounted, observers, pc, config, fs, dirs, pending, stats, clock, hist>>

CallNeedsSync(p) ==
    /\ call' = [op |-> "needs_sync", path |-> p, ret |-> NeedsSync(db, stats, p)]
    /\ UNCHANGED <<mounted, observers, pc, config, fs, dirs, pending, db, stats, clock, hist>>

NextMeta ==
    \/ Tick
    \/ \E p \in MetaPaths, size \in 0..MaxSize : FileWrite(p, size)
    \/ \E p \in MetaPaths : FileDelete(p)
    \/ \E p \in MetaPaths : UpdateFileMetadata(p)
    \/ \E p \in MetaPaths : DeleteFileMetadata(p)
    \/ \E p \in MetaPaths : CallNeedsSync(p)

SpecMeta == InitMeta /\ [][NextMeta]_vars

(***************************************************************************)
(* Properties of MetadataDB, checked under SpecMeta.                       *)
(***************************************************************************)
\* C5: for a file on disk, needs_sync is true when the store holds no record
\* for it, false right after update_file_metadata for it, and true when the
\* file's mtime is later than the record's or its size differs from it.
C5_StalenessDetection ==
    /\ \A p \in DOMAIN stats :
           p \notin DOMAIN db => NeedsSync(db, stats, p)
    /\ (call.op = "update_file_metadata" /\ call.path \in DOMAIN stats)
           => ~NeedsSync(db, stats, call.path)
    /\ \A p \in DOMAIN stats \cap DOMAIN db :
           (stats[p].mtime > db[p].modified_time \/ stats[p].size # db[p].size)
               => NeedsSync(db, stats, p)

\* C6 as claimed: needs_sync(path) is true when the file is gone from disk
\* and the store still holds its record.
C6_GoneIsStale ==
    (/\ call.op = "needs_sync"
     /\ call.path \notin DOMAIN stats
     /\ call.path \in DOMAIN db)
    => call.ret = TRUE

\* C6 as amended: needs_sync(path) is false when the file is gone from disk,
\* also when the store still holds its record.
C6_GoneIsNotStale ==
    (/\ call.op = "needs_sync"
     /\ call.path \notin DOMAIN stats
     /\ call.path \in DOMAIN db)
    => call.ret = FALSE

\* C6's case: needs_sync was asked about a file that is gone and has a record
C6_Witness ==
    /\ call.op = "needs_sync"
    /\ call.path \notin DOMAIN stats
    /\ call.path \in DOMAIN db
    /\ call.ret = FALSE

(***************************************************************************)
(* FileMonitor and FileChangeHandler (core/file_monitor.py).  pending is   *)
(* FileMonitor.sync_queue; a platform event is                             *)
(* [kind, src_path, dest_path, is_directory].                              *)
(***************************************************************************)
\* sync_queue = []: a list, and a list has no method put
ListHasPut == FALSE

\* self.sync_queue.put(item): AttributeError on a list
QueuePut(queue, item) ==
    IF ListHasPut THEN [queue |-> Append(queue, item), ret |-> "returned"]
    ELSE [queue |-> queue, ret |-> "raised"]

OnModified(queue, event) ==
    IF event.is_directory THEN [queue |-> queue, ret |-> "ignored"]
    ELSE QueuePut(queue, Event("modified", event.src_path, None))

OnCreated(queue, event) ==
    QueuePut(queue, Event("created", event.src_path, None))

OnDeleted(queue, event) ==
    QueuePut(queue, Event("deleted", event.src_path, None))

OnMoved(queue, event) ==
    QueuePut(queue, Event("moved", event.src_path, event.dest_path))

\* FileSystemEventHandler.dispatch: the method of the event's kind
Handle(queue, event) ==
    CASE event.kind = "modified" -> OnModified(queue, event)
      [] event.kind = "created" -> OnCreated(queue, event)
      [] event.kind = "deleted" -> OnDeleted(queue, event)
      [] event.kind = "moved" -> OnMoved(queue, event)

\* _load_config: {} when the file cannot be read or parsed
EmptyConfig == [mount_point |-> None, sync_directories |-> <<>>]

LoadConfig(file) == IF file.readable THEN file.content ELSE EmptyConfig

\* an entry of sync_directories without "local_path": .get returns None
MapNoLocal == [local_path |-> None, remote_path |-> <<"b">>,
               exclude_patterns |-> <<>>]

MonitorMappings == {MapD, MapE, MapN, MapNoLocal}

ConfigFiles ==
    {[readable |-> r,
      content |-> [mount_point |-> <<"/", "m">>, sync_directories |-> sd]] :
        r \in BOOLEAN,
        sd \in UNION {[1..n -> MonitorMappings] : n \in 0..MaxMappings}}

\* start_monitoring: the loop over sync_directories from index i; os.path.exists
\* of None raises TypeError, which nothing catches
RECURSIVE StartFrom(_, _, _, _)
StartFrom(cfg, st, i, started) ==
    IF i > Len(cfg.sync_directories) THEN [observers |-> started, ok |-> TRUE]
    ELSE IF cfg.sync_directories[i].local_path = None
    THEN [observers |-> started, ok |-> FALSE]
    ELSE IF ~Exists(st, cfg.sync_directories[i].local_path)
    THEN StartFrom(cfg, st, i + 1, started)
    ELSE StartFrom(cfg, st, i + 1,
                   Append(started, [path |-> cfg.sync_directories[i].local_path,
                                    alive |-> TRUE]))

\* the local trees the monitor may be started on
MonitorTrees ==
    {{<<"/">>, <<"/", "m">>} \cup D : D \in SUBSET {<<"/", "d">>, <<"/", "e">>}}

InitMonitor ==
    /\ \E file \in ConfigFiles : config = LoadConfig(file)
    /\ fs = NoFiles
    /\ dirs \in MonitorTrees
    /\ pending = <<>>
    /\ db = NoFiles
    /\ stats = NoFiles
    /\ clock = 0
    /\ call = NoCall
    /\ hist = NoHist
    /\ NothingRuns

\* FileMonitor.start_monitoring(), called once by the process
StartMonitoring ==
    /\ call.op = "none"
    /\ observers' = StartFrom(config, Here, 1, observers).observers
    /\ call' = [op |-> "start_monitoring", path |-> None,
                ret |-> IF StartFrom(config, Here, 1, observers).ok
                        THEN "returned" ELSE "raised"]
    /\ UNCHANGED <<mounted, pc, config, fs, dirs, pending, db, stats, clock, hist>>

\* the platform events the watch adapter can deliver
PlatformEvents ==
    {[kind |-> k, src_path |-> p, dest_path |-> q, is_directory |-> d] :
        k \in {"created", "modified", "deleted", "moved"},
        p \in {FileA, <<"/", "e", "/", "b">>},
        q \in {None, FileLog},
        d \in BOOLEAN}

\* observer i delivers an event below its directory to its handler; what
\* becomes of the observer's thread when the handler raises is the watchdog
\* library's business: it may go on or end
Dispatch(i, event, survives) ==
    /\ observers[i].alive
    /\ StartsWith(event.src_path, observers[i].path)
    /\ (event.kind = "moved") = (event.dest_path # None)
    /\ pending' = Handle(pending, event).queue
    /\ call' = [op |-> "dispatch", path |-> event.src_path,
                ret |-> Handle(pending, event).ret,
                event |-> event, before |-> pending]
    /\ observers' = [observers EXCEPT ![i].alive =
                        Handle(pending, event).ret # "raised" \/ survives]
    /\ UNCHANGED <<mounted, pc, config, fs, dirs, db, stats, clock, hist>>

NextMonitor ==
    \/ StartMonitoring
    \/ \E i \in DOMAIN observers, event \in PlatformEvents, survives \in BOOLEAN :
           Dispatch(i, event, survives)

SpecMonitor == InitMonitor /\ [][NextMonitor]_vars

(***************************************************************************)
(* Properties of the monitor, checked under SpecMonitor.                   *)
(***************************************************************************)
\* C11: every file-level created/modified/deleted/moved event delivered to
\* the handler appends exactly one entry to the sync queue, carrying the
\* event's kind and its path (source and destination for a move), and the
\* handler returns, however many entries are queued.
C11_EnqueueNeverFails ==
    (call.op = "dispatch" /\ ~call.event.is_directory)
    => /\ call.ret = "returned"
       /\ pending = Append(call.before,
                           Event(call.event.kind, call.event.src_path,
                                 call.event.dest_path))

MapO == [local_path |-> <<"/", "o">>, remote_path |-> <<"o">>,
         exclude_patterns |-> <<>>]

CallMappings == {MainConfig.sync_directories[1], MapO, MapN, MapNoLocal}

CallConfigFiles ==
    {[readable |-> r,
      content |-> [mount_point |-> <<"/", "m">>, sync_directories |-> sd]] :
        r \in BOOLEAN,
        sd \in UNION {[1..n -> CallMappings] : n \in 0..MaxMappings}}

FileO == <<"/", "o", "/", "b">>
FileOut == <<"/", "x", "/", "a">>

\* the local tree: /d/a, /d/s/c, /o/b, and /x/a outside every mapping
CallLocalFiles == [q \in {FileA, FileSub, FileO, FileOut} |-> 1]

CallLocalDirs ==
    {<<"/">>, <<"/", "m">>, <<"/", "d">>, <<"/", "d", "/", "s">>,
     <<"/", "o">>, <<"/", "x">>}

\* what the share holds at the start: nothing; a file where the directory
\* r/s is to be; a file where the directory r is to be; an older copy of /d/a
RemoteStarts ==
    {[fs |-> NoFiles, dirs |-> {}],
     [fs |-> [q \in {<<"/", "m", "/", "r", "/", "s">>} |-> 2],
      dirs |-> {<<"/", "m", "/", "r">>}],
     [fs |-> [q \in {<<"/", "m", "/", "r">>} |-> 2], dirs |-> {}],
     [fs |-> [q \in {<<"/", "m", "/", "r", "/", "a">>} |-> 2],
      dirs |-> {<<"/", "m", "/", "r">>}]}

InitCalls ==
    /\ \E file \in CallConfigFiles : config = LoadConfig(file)
    /\ \E r \in RemoteStarts :
           /\ fs = [q \in DOMAIN CallLocalFiles \cup DOMAIN r.fs |->
                       IF q \in DOMAIN r.fs THEN r.fs[q] ELSE CallLocalFiles[q]]
           /\ dirs = CallLocalDirs \cup r.dirs
    /\ pending = <<>>
    /\ db = NoFiles
    /\ stats = NoFiles
    /\ clock = 0
    /\ call = NoCall
    /\ hist = NoHist
    /\ NothingRuns

\* sync_file(action, file_path) and sync_file('moved', file_path, dest_path)
SyncFileCall(action, file_path, dest_path) ==
    /\ (action = "moved") = (dest_path # None)
    /\ file_path # dest_path
    /\ Becomes(SyncFile(config, Here, action, file_path, dest_path))
    /\ call' = [op |-> "sync_file", path |-> file_path,
                ret |-> IF SyncFile(config, Here, action, file_path, dest_path).ok
                        THEN "returned" ELSE "raised",
                action |-> action, dest |-> dest_path, before |-> Here]
    /\ UNCHANGED <<mounted, observers, pc, config, pending, db, stats, clock, hist>>

\* full_sync()
FullSyncCall ==
    /\ Becomes(FullSync(config, Here))
    /\ call' = [op |-> "full_sync", path |-> None,
                ret |-> IF FullSync(config, Here).ok THEN "returned" ELSE "raised",
                action |-> "none", dest |-> None, before |-> Here]
    /\ UNCHANGED <<mounted, observers, pc, config, pending, db, stats, clock, hist>>

NextCalls ==
    \/ \E action \in {"created", "modified", "deleted", "moved"},
          file_path \in DOMAIN CallLocalFiles,
          dest_path \in {None, FileA, FileOut} :
           SyncFileCall(action, file_path, dest_path)
    \/ FullSyncCall
    \/ StartMonitoring

SpecCalls == InitCalls /\ [][NextCalls]_vars

(***************************************************************************)
(* Properties of the engine's calls, checked under SpecCalls.              *)
(***************************************************************************)
\* every entry of sync_directories has a local path
AllMappingsHaveLocal ==
    \A i \in DOMAIN config.sync_directories :
        config.sync_directories[i].local_path # None

\* nothing on the way to remote_path is a regular file, and remote_path is
\* not a directory: creating its directories and writing it can succeed
Unobstructed(st, remote_path) ==
    /\ \A k \in 0..(Len(Components(remote_path)) - 1) :
           Node(Components(remote_path), k) \notin DOMAIN st.fs
    /\ AbsPath(remote_path) \notin st.dirs

\* file f of mapping m has its copy on the remote tree
CopiedUnder(m, f) ==
    /\ IsFile(Here, WalkRemote(f, m.local_path, RemoteDir(config, m)))
    /\ fs[AbsPath(WalkRemote(f, m.local_path, RemoteDir(config, m)))] = fs[f]

\* C13: a failed copy, remove, move or mkdir does not propagate out of
\* sync_file or full_sync, and full_sync still processes the rest: every
\* file that passes the policy and whose own remote path is not obstructed
\* has its copy.
C13_FailureIsolation ==
    /\ call.op = "sync_file" => call.ret = "returned"
    /\ (call.op = "full_sync" /\ AllMappingsHaveLocal)
       => /\ call.ret = "returned"
          /\ \A i \in DOMAIN config.sync_directories :
                 \A f \in DOMAIN CallLocalFiles :
                     (/\ StartsWith(f, config.sync_directories[i].local_path
                                           \o <<"/">>)
                      /\ ShouldSyncFile(config, f)
                      /\ Unobstructed(call.before,
                             WalkRemote(f, config.sync_directories[i].local_path,
                                 RemoteDir(config, config.sync_directories[i]))))
                     => CopiedUnder(config.sync_directories[i], f)

\* C18: when no mapping's local root is a prefix of the event's path,
\* sync_file returns with the remote tree as it was, for every action.
C18_UnresolvableDropped ==
    (call.op = "sync_file" /\ GetRemotePath(config, call.path) = None)
    => /\ call.ret = "returned"
       /\ RemoteTree(Here) = RemoteTree(call.before)

\* a mapping that can be used: it has a local path and the directory exists
Usable(m) == m.local_path # None /\ Exists(Here, m.local_path)

\* C20: full_sync (on a share with nothing in the way) and start_monitoring
\* return, and every usable mapping is synced / watched whatever the other
\* entries are; an unreadable configuration file gives no mapping.
C20_BadMappingSkipped ==
    /\ (call.op = "full_sync" /\ RemoteTree(call.before) = NoTree)
       => /\ call.ret = "returned"
          /\ \A i \in DOMAIN config.sync_directories :
                 Usable(config.sync_directories[i])
                 => IsDir(Here, RemoteDir(config, config.sync_directories[i]))
    /\ call.op = "start_monitoring"
       => /\ call.ret = "returned"
          /\ \A i \in DOMAIN config.sync_directories :
                 Usable(config.sync_directories[i])
                 => \E j \in DOMAIN observers :
                        observers[j].path = config.sync_directories[i].local_path

(***************************************************************************)
(* MetadataDB when storage fails.  A fault is the point of a call at which *)
(* sqlite3 raises: at connect, at execute, or at commit; a transaction     *)
(* that is not committed leaves the table as it was.                       *)
(***************************************************************************)
Faults == {"none", "connect", "execute", "commit"}

\* "except Exception as e: self.logger.error(...)": the call returns
StoreCaught(r) == [rows |-> r.rows, ok |-> TRUE]

\* the try block of delete_file_metadata
TryDelete(rows, file_path, fault) ==
    IF fault # "none" THEN [rows |-> rows, ok |-> FALSE]
    ELSE [rows |-> DeleteRow(rows, file_path), ok |-> TRUE]

\* MetadataDB.delete_file_metadata
StoreDelete(rows, file_path, fault) ==
    StoreCaught(TryDelete(rows, file_path, fault))

\* the try block of update_file_metadata; time.time() raises NameError when
\* the statement's parameters are built
TryUpdate(rows, files, file_path, fault) ==
    IF file_path \notin DOMAIN files THEN StoreDelete(rows, file_path, fault)
    ELSE IF fault # "none" \/ ~TimeDefined THEN [rows |-> rows, ok |-> FALSE]
    ELSE [rows |-> UpsertRow(rows, file_path, files[file_path]), ok |-> TRUE]

\* MetadataDB.update_file_metadata
StoreUpdate(rows, files, file_path, fault) ==
    StoreCaught(TryUpdate(rows, files, file_path, fault))

\* a get_file_metadata that answers from a cached row when the read fails
GetFileMetadataCached(rows, file_path, fault) ==
    [found |-> HasRow(rows, file_path), ok |-> TRUE]

\* MetadataDB.get_file_metadata: the row, or None when there is none or the
\* read fails (get_file_metadata does not commit)
GetFileMetadata(rows, file_path, fault) ==
    [found |-> fault \notin {"connect", "execute"} /\ HasRow(rows, file_path),
     ok |-> TRUE]

\* MetadataDB.needs_sync on top of get_file_metadata
NeedsSyncVia(rows, files, file_path, fault) ==
    IF file_path \notin DOMAIN files THEN FALSE
    ELSE IF ~GetFileMetadata(rows, file_path, fault).found THEN TRUE
    ELSE \/ files[file_path].mtime > rows[file_path].modified_time
         \/ files[file_path].size # rows[file_path].size

StoreCall(op, p, fault, ret, raised) ==
    [op |-> op, path |-> p, ret |-> ret, fault |-> fault, raised |-> raised,
     before |-> db]

UpdateCall(p, fault) ==
    /\ db' = StoreUpdate(db, stats, p, fault).rows
    /\ call' = StoreCall("update_file_metadata", p, fault, None,
                         ~StoreUpdate(db, stats, p, fault).ok)
    /\ UNCHANGED <<mounted, observers, pc, config, fs, dirs, pending, stats, clock, hist>>

DeleteCall(p, fault) ==
    /\ db' = StoreDelete(db, p, fault).rows
    /\ call' = StoreCall("delete_file_metadata", p, fault, None,
                         ~StoreDelete(db, p, fault).ok)
    /\ UNCHANGED <<mounted, observers, pc, config, fs, dirs, pending, stats, clock, hist>>

GetCall(p, fault) ==
    /\ call' = StoreCall("get_file_metadata", p, fault,
                         GetFileMetadata(db, p, fault).found,
                         ~GetFileMetadata(db, p, fault).ok)
    /\ UNCHANGED <<mounted, observers, pc, config, fs, dirs, pending, db, stats, clock, hist>>

NeedsSyncCall(p, fault) ==
    /\ call' = StoreCall("needs_sync", p, fault,
                         NeedsSyncVia(db, stats, p, fault), FALSE)
    /\ UNCHANGED <<mounted, observers, pc, config, fs, dirs, pending, db, stats, clock, hist>>

NextStore ==
    \/ Tick
    \/ \E p \in MetaPaths, size \in 0..MaxSize : FileWrite(p, size)
    \/ \E p \in MetaPaths : FileDelete(p)
    \/ \E p \in MetaPaths, fault \in Faults : UpdateCall(p, fault)
    \/ \E p \in MetaPaths, fault \in Faults : DeleteCall(p, fault)
    \/ \E p \in MetaPaths, fault \in Faults : GetCall(p, fault)
    \/ \E p \in MetaPaths, fault \in Faults : NeedsSyncCall(p, fault)

SpecStore == InitMeta /\ [][NextStore]_vars

\* the storage operation of the last call failed
StoreFailed ==
    /\ call.op \in {"update_file_metadata", "delete_file_metadata",
                    "get_file_metadata", "needs_sync"}
    /\ call.fault # "none"
    /\ call.op \in {"get_file_metadata", "needs_sync"}
       => call.fault \in {"connect", "execute"}

\* C14: when a storage operation fails inside update_file_metadata,
\* delete_file_metadata or get_file_metadata, no exception reaches the
\* caller, the stored records are as before the call, get_file_metadata
\* reports no record, and needs_sync on an existing file is true.
C14_StoreFailuresSilent ==
    StoreFailed
    => /\ ~call.raised
       /\ db = call.before
       /\ call.op = "get_file_metadata" => call.ret = FALSE
       /\ (call.op = "needs_sync" /\ call.path \in DOMAIN stats)
          => call.ret = TRUE

\* C14's case: the read fails for an existing file whose record matches its
\* mtime and size, and needs_sync answers true
C14_Witness ==
    /\ StoreFailed
    /\ call.op = "needs_sync"
    /\ call.path \in DOMAIN stats
    /\ call.path \in DOMAIN db
    /\ stats[call.path].mtime = db[call.path].modified_time
    /\ stats[call.path].size = db[call.path].size
    /\ call.ret = TRUE

(***************************************************************************)
(* The record lifecycle, checked under Spec.                               *)
(***************************************************************************)
\* the last step handled a Created or Modified event and the copy succeeded:
\* the remote counterpart is a file with the local file's content
SyncedNow ==
    /\ hist.last.action \in {"created", "modified"}
    /\ ShouldSyncFile(config, hist.last.src)
    /\ hist.last.src \in DOMAIN fs
    /\ RemoteIsFile(Here, hist.last.src)
    /\ fs[AbsPath(GetRemotePath(config, hist.last.src))] = fs[hist.last.src]

\* C15: the store holds a record for a path exactly when the path has been
\* synced and not deleted since: right after a successful Created/Modified
\* sync the path has a record, and right after a handled Deleted event of a
\* synced path it has none.
C15_RecordLifecycle ==
    /\ SyncedNow => hist.last.src \in DOMAIN db
    /\ (Handled("deleted") /\ ~RemoteIsFile(Here, hist.last.src))
       => hist.last.src \notin DOMAIN db

(***************************************************************************)
(* scripts/sync_now.py and LinuxMountManager                               *)
(* (core/platforms/linux/mount_manager.py).  pc is main's position with    *)
(* what it has done so far; mounted is the system's mount table.           *)
(***************************************************************************)
\* is_mounted: the share is in the output of `mount`; False when running
\* the command raises
IsMounted(mnt, probe) == probe = "ok" /\ mnt

\* mount, after os.makedirs(mount_point): the mount command's return code,
\* or an exception of subprocess.run
MountAfterMakedirs(m, mnt, rc) ==
    IF ~m.ok THEN [fs |-> m.fs, dirs |-> m.dirs, ok |-> FALSE, mounted |-> mnt]
    ELSE IF rc = "0"
    THEN [fs |-> m.fs, dirs |-> m.dirs, ok |-> TRUE, mounted |-> TRUE]
    ELSE [fs |-> m.fs, dirs |-> m.dirs, ok |-> FALSE, mounted |-> mnt]

\* LinuxMountManager.mount
Mount(cfg, st, mnt, probe, rc) ==
    IF IsMounted(mnt, probe)
    THEN [fs |-> st.fs, dirs |-> st.dirs, ok |-> TRUE, mounted |-> mnt]
    ELSE MountAfterMakedirs(Makedirs(st, cfg.mount_point), mnt, rc)

\* LinuxMountManager.ensure_mounted
EnsureMounted(cfg, st, mnt, probe1, probe2, rc) ==
    IF ~IsMounted(mnt, probe1) THEN Mount(cfg, st, mnt, probe2, rc)
    ELSE [fs |-> st.fs, dirs |-> st.dirs, ok |-> TRUE, mounted |-> mnt]

\* a main that goes on to sync whatever ensure_mounted returned
AfterEnsureMountedAlways(ok) == "sync"

\* "if not mount_manager.ensure_mounted(): ... return 1"
AfterEnsureMounted(ok) == IF ok THEN "sync" ELSE "done"

Probes == {"ok", "error"}
ReturnCodes == {"0", "32", "error"}

\* main has not returned
Running == "none"

\* the local trees sync_now may be run on
SyncNowTrees ==
    UNION {[S -> Data] : S \in SUBSET LocalFiles}

InitSyncNow ==
    /\ config = MainConfig
    /\ fs \in SyncNowTrees
    /\ dirs \in {{<<"/">>, <<"/", "d">>, <<"/", "d", "/", "s">>} \cup M :
                    M \in SUBSET {<<"/", "m">>}}
    /\ pending = <<>>
    /\ db = NoFiles
    /\ stats = NoFiles
    /\ clock = 0
    /\ call = NoCall
    /\ hist = NoHist
    /\ mounted \in BOOLEAN
    /\ observers = <<>>
    /\ \E exists \in BOOLEAN, valid \in BOOLEAN :
           pc = [at |-> "start", exists |-> exists, valid |-> valid,
                 checked |-> FALSE, ok |-> FALSE, synced |-> FALSE,
                 code |-> Running]

\* main: the configuration file is looked for and parsed
MainLoadConfig ==
    /\ pc.at = "start"
    /\ pc' = IF pc.exists /\ pc.valid
             THEN [pc EXCEPT !.at = "mount"]
             ELSE [pc EXCEPT !.at = "done", !.code = "1"]
    /\ UNCHANGED <<mounted, observers, config, fs, dirs, pending, db, stats,
                   clock, call, hist>>

\* main: mount_manager.ensure_mounted() and the test of its result
MainEnsureMounted(probe1, probe2, rc) ==
    /\ pc.at = "mount"
    /\ Becomes(EnsureMounted(config, Here, mounted, probe1, probe2, rc))
    /\ mounted' = EnsureMounted(config, Here, mounted, probe1, probe2, rc).mounted
    /\ pc' = [pc EXCEPT
          !.checked = TRUE,
          !.ok = EnsureMounted(config, Here, mounted, probe1, probe2, rc).ok,
          !.at = AfterEnsureMounted(
                     EnsureMounted(config, Here, mounted, probe1, probe2, rc).ok),
          !.code = IF EnsureMounted(config, Here, mounted, probe1, probe2, rc).ok
                   THEN Running ELSE "1"]
    /\ UNCHANGED <<observers, config, pending, db, stats, clock, call, hist>>

\* main: SyncEngine(config_path).full_sync() and the return; an exception
\* that leaves full_sync ends the process with status 1
MainFullSync ==
    /\ pc.at = "sync"
    /\ Becomes(FullSync(config, Here))
    /\ pc' = [pc EXCEPT !.at = "done", !.synced = TRUE,
                        !.code = IF FullSync(config, Here).ok THEN "0" ELSE "1"]
    /\ UNCHANGED <<mounted, observers, config, pending, db, stats, clock, call,
                   hist>>

NextSyncNow ==
    \/ MainLoadConfig
    \/ \E probe1 \in Probes, probe2 \in Probes, rc \in ReturnCodes :
           MainEnsureMounted(probe1, probe2, rc)
    \/ MainFullSync

SpecSyncNow == InitSyncNow /\ [][NextSyncNow]_vars

\* C16: full_sync is invoked only after ensure_mounted has returned true; a
\* run in which ensure_mounted returned false ends without full_sync, with
\* nothing created below the mount point, and with a non-zero status.
C16_MountFailureAborts ==
    /\ pc.at = "sync" \/ pc.synced => pc.checked /\ pc.ok
    /\ (pc.checked /\ ~pc.ok)
       => /\ pc.at = "done"
          /\ ~pc.synced
          /\ pc.code = "1"
          /\ RemoteTree(Here) = NoTree

\* C16's case: the mount command failed after the mount point was made, on a
\* tree with files to sync, and main has returned
C16_Witness ==
    /\ pc.at = "done"
    /\ pc.checked
    /\ ~pc.ok
    /\ ~mounted
    /\ <<"/", "m">> \in dirs
    /\ FileA \in DOMAIN fs

(***************************************************************************)
(* Two MetadataDB calls at once, one from event handling and one from a    *)
(* full-sync walk, each on its own sqlite3 connection.  pc[t] is the       *)
(* position of call t, the result of its SELECT and its open transaction.  *)
(* A statement that writes takes the database's write lock until the       *)
(* commit; a second writer waits for it.                                   *)
(***************************************************************************)
Procs == {"event", "walk"}

StoreOps == {"update_file_metadata", "delete_file_metadata"}

\* the row an upsert writes for a file
RowOf(stat) == [modified_time |-> stat.mtime, size |-> stat.size]

\* the effect of a committed transaction on the table
Committed(rows, tx, file_path, stat) ==
    CASE tx = "insert" ->
             [q \in DOMAIN rows \cup {file_path} |->
                 IF q = file_path THEN RowOf(stat) ELSE rows[q]]
      [] tx = "update" ->
             [q \in DOMAIN rows |-> IF q = file_path THEN RowOf(stat) ELSE rows[q]]
      [] tx = "delete" -> DeleteRow(rows, file_path)
      [] OTHER -> rows

\* no other call holds the write lock
LockFree(t) == \A u \in Procs \ {t} : pc[u].at # "commit"

InitConcurrent ==
    /\ config = MainConfig
    /\ fs = NoFiles
    /\ dirs = {}
    /\ pending = <<>>
    /\ db \in MetaStartRows
    /\ stats \in UNION {[S -> {[mtime |-> 1, size |-> 2]}] : S \in SUBSET MetaPaths}
    /\ clock = 0
    /\ call = StoreCall("concurrent", None, "none", None, FALSE)
    /\ hist = NoHist
    /\ mounted = FALSE
    /\ observers = <<>>
    /\ pc \in [Procs -> {[op |-> op, path |-> p, at |-> "start", stmt |-> "none",
                          existing |-> FALSE, tx |-> "none", result |-> "none"] :
                            op \in StoreOps, p \in MetaPaths}]

\* update_file_metadata: os.path.exists, then delete_file_metadata or os.stat
StoreStart(t) ==
    /\ pc[t].at = "start"
    /\ pc' = [pc EXCEPT ![t] =
                 IF pc[t].op = "update_file_metadata" /\ pc[t].path \in DOMAIN stats
                 THEN [@ EXCEPT !.at = "select", !.stmt = "upsert"]
                 ELSE [@ EXCEPT !.at = "execute", !.stmt = "delete"]]
    /\ UNCHANGED <<mounted, observers, config, fs, dirs, pending, db, stats,
                   clock, call, hist>>

\* SELECT * FROM files WHERE path = ?
StoreSelect(t) ==
    /\ pc[t].at = "select"
    /\ pc' = [pc EXCEPT ![t] = [@ EXCEPT !.at = "execute",
                                         !.existing = pc[t].path \in DOMAIN db]]
    /\ UNCHANGED <<mounted, observers, config, fs, dirs, pending, db, stats,
                   clock, call, hist>>

\* the position after the UPDATE / INSERT / DELETE statement: building the
\* upsert's parameters raises NameError (time is not imported); an INSERT of
\* a path that is in the table by now violates UNIQUE
Executed(p) ==
    IF p.stmt = "delete" THEN [p EXCEPT !.at = "commit", !.tx = "delete"]
    ELSE IF ~TimeDefined THEN [p EXCEPT !.at = "done", !.result = "NameError"]
    ELSE IF p.existing THEN [p EXCEPT !.at = "commit", !.tx = "update"]
    ELSE IF p.path \in DOMAIN db
    THEN [p EXCEPT !.at = "done", !.result = "IntegrityError"]
    ELSE [p EXCEPT !.at = "commit", !.tx = "insert"]

StoreExecute(t) ==
    /\ pc[t].at = "execute"
    /\ Executed(pc[t]).at = "commit" => LockFree(t)
    /\ pc' = [pc EXCEPT ![t] = Executed(pc[t])]
    /\ UNCHANGED <<mounted, observers, config, fs, dirs, pending, db, stats,
                   clock, call, hist>>

\* conn.commit()
StoreCommit(t) ==
    /\ pc[t].at = "commit"
    /\ db' = Committed(db, pc[t].tx, pc[t].path,
                       IF pc[t].path \in DOMAIN stats THEN stats[pc[t].path]
                       ELSE [mtime |-> 0, size |-> 0])
    /\ pc' = [pc EXCEPT ![t] = [@ EXCEPT !.at = "done", !.result = "ok"]]
    /\ UNCHANGED <<mounted, observers, config, fs, dirs, pending, stats, clock,
                   call, hist>>

NextConcurrent ==
    \/ \E t \in Procs : StoreStart(t)
    \/ \E t \in Procs : StoreSelect(t)
    \/ \E t \in Procs : StoreExecute(t)
    \/ \E t \in Procs : StoreCommit(t)

SpecConcurrent == InitConcurrent /\ [][NextConcurrent]_vars

\* call t has taken effect: an upsert of an existing file left its row, a
\* remove (or an upsert of a file that is gone) left no row
TookEffect(t) ==
    IF pc[t].op = "update_file_metadata" /\ pc[t].path \in DOMAIN stats
    THEN /\ pc[t].path \in DOMAIN db
         /\ db[pc[t].path] = RowOf(stats[pc[t].path])
    ELSE pc[t].path \notin DOMAIN db

\* C17: when two concurrent calls for different paths have both returned,
\* both have taken effect; when two upserts for the same path have both
\* returned, the path has its one record with the written values; records of
\* paths neither call names are as before.
C17_ConcurrentStoreSafe ==
    (\A t \in Procs : pc[t].at = "done")
    => /\ pc["event"].path # pc["walk"].path
          => TookEffect("event") /\ TookEffect("walk")
       /\ (/\ pc["event"].path = pc["walk"].path
           /\ pc["event"].op = "update_file_metadata"
           /\ pc["walk"].op = "update_file_metadata")
          => TookEffect("event")
       /\ \A q \in MetaPaths \ {pc["event"].path, pc["walk"].path} :
              /\ q \in DOMAIN db <=> q \in DOMAIN call.before
              /\ q \in DOMAIN db => db[q] = call.before[q]

(***************************************************************************)
(* Completeness of full_sync, checked under SpecFull: there the remote     *)
(* tree holds only what earlier full_sync runs put there, and no file      *)
(* operation fails.                                                        *)
(***************************************************************************)
\* C19: right after full_sync, for every mapping whose local root exists,
\* every local directory below the root has its remote directory and every
\* local file that passes _should_sync_file is at
\* mount_point/remote_path/<relative path> with its content, whether or not
\* the store holds a record for it.
C19_FullSyncComplete ==
    hist.runs >= 1
    => \A i \in DOMAIN config.sync_directories :
           Exists(Here, config.sync_directories[i].local_path)
           => /\ IsDir(Here, RemoteDir(config, config.sync_directories[i]))
              /\ \A d \in dirs :
                     StartsWith(d, config.sync_directories[i].local_path \o <<"/">>)
                     => IsDir(Here, WalkRemote(d, config.sync_directories[i].local_path,
                                   RemoteDir(config, config.sync_directories[i])))
              /\ \A f \in DOMAIN fs :
                     (/\ StartsWith(f, config.sync_directories[i].local_path
                                           \o <<"/">>)
                      /\ ShouldSyncFile(config, f))
                     => CopiedUnder(config.sync_directories[i], f)

\* C19's case: full_sync has run on a tree with a sub-directory, an excluded
\* file and a file the store holds a record for
C19_Witness ==
    /\ hist.runs >= 1
    /\ FileA \in DOMAIN fs
    /\ FileA \in DOMAIN db
    /\ FileSub \in DOMAIN fs
    /\ FileLog \in DOMAIN fs
    /\ RemoteIsFile(Here, FileA)
    /\ RemoteIsFile(Here, FileSub)

(***************************************************************************)
(* FileMonitor.stop_monitoring.  pc is the call's position: the loop it is *)
(* in, the index of the next observer, the observers stop() was issued to  *)
(* and the observers joined.  An observer's thread ends some time after    *)
(* stop(); until then it can still deliver an event.                       *)
(***************************************************************************)
\* a join that returns without waiting for the thread to end
JoinReturnsAtOnce(observer) == TRUE

\* observer.join() returns when the observer's thread has ended
JoinReturns(observer) == ~observer.alive

NotStopping == [at |-> "idle", next |-> 1, stopped |-> {}, joined |-> {}]

InitShutdown ==
    /\ \E file \in ConfigFiles : config = LoadConfig(file)
    /\ fs = NoFiles
    /\ dirs \in MonitorTrees
    /\ pending = <<>>
    /\ db = NoFiles
    /\ stats = NoFiles
    /\ clock = 0
    /\ call = NoCall
    /\ hist = NoHist
    /\ mounted = FALSE
    /\ observers = <<>>
    /\ pc = NotStopping

\* stop_monitoring() is called, after start_monitoring
StopBegin ==
    /\ pc.at = "idle"
    /\ call.op # "none"
    /\ pc' = [pc EXCEPT !.at = "stop"]
    /\ UNCHANGED <<mounted, observers, config, fs, dirs, pending, db, stats,
                   clock, call, hist>>

\* "for observer in self.observers: observer.stop()": one iteration, or the
\* end of the loop
StopOne ==
    /\ pc.at = "stop"
    /\ pc' = IF pc.next > Len(observers)
             THEN [pc EXCEPT !.at = "join", !.next = 1]
             ELSE [pc EXCEPT !.next = pc.next + 1,
                             !.stopped = pc.stopped \cup {pc.next}]
    /\ UNCHANGED <<mounted, observers, config, fs, dirs, pending, db, stats,
                   clock, call, hist>>

\* "for observer in self.observers: observer.join()": one iteration, or the
\* end of the loop and the return
JoinOne ==
    /\ pc.at = "join"
    /\ pc.next <= Len(observers) => JoinReturns(observers[pc.next])
    /\ pc' = IF pc.next > Len(observers)
             THEN [pc EXCEPT !.at = "returned"]
             ELSE [pc EXCEPT !.next = pc.next + 1,
                             !.joined = pc.joined \cup {pc.next}]
    /\ UNCHANGED <<mounted, observers, config, fs, dirs, pending, db, stats,
                   clock, call, hist>>

\* the thread of an observer that was told to stop ends
ObserverExit(i) ==
    /\ i \in pc.stopped
    /\ observers[i].alive
    /\ observers' = [observers EXCEPT ![i].alive = FALSE]
    /\ UNCHANGED <<mounted, pc, config, fs, dirs, pending, db, stats, clock,
                   call, hist>>

NextShutdown ==
    \/ StartMonitoring
    \/ \E i \in DOMAIN observers, event \in PlatformEvents, survives \in BOOLEAN :
           Dispatch(i, event, survives)
    \/ StopBegin
    \/ StopOne
    \/ JoinOne
    \/ \E i \in DOMAIN observers : ObserverExit(i)

SpecShutdown == InitShutdown /\ [][NextShutdown]_vars

\* C21: stop_monitoring waits on an observer only after stop() was issued to
\* every started observer, and when it has returned every observer has been
\* joined and none has a running thread: no event can be delivered any more.
C21_JoinStyleShutdown ==
    /\ pc.at \in {"join", "returned"} => pc.stopped = DOMAIN observers
    /\ pc.joined # {} => pc.at \in {"join", "returned"}
    /\ pc.at = "returned"
       => /\ pc.joined = DOMAIN observers
          /\ \A i \in DOMAIN observers : ~observers[i].alive

\* C21's case: two observers were started, an event was delivered, and
\* stop_monitoring has returned
C21_Witness ==
    /\ pc.at = "returned"
    /\ Len(observers) = 2
    /\ call.op = "dispatch"

(***************************************************************************)
(* The local tree under the engine's calls, checked under SpecCalls.       *)
(***************************************************************************)
\* the part of a tree outside the mount point: the local files with their
\* contents, and the local directories
OnShare(p) == p = <<"/", "m">> \/ StartsWith(p, <<"/", "m", "/">>)

LocalTree(st) ==
    [files |-> [q \in {p \in DOMAIN st.fs : ~OnShare(p)} |-> st.fs[q]],
     dirs |-> {p \in st.dirs : ~OnShare(p)}]

\* C22: a sync_file call (created, modified, deleted or moved) or a full_sync
\* run leaves the set of local files, their contents and the local
\* directories as they were before the call.
C22_LocalTreeUnchanged ==
    call.op \in {"sync_file", "full_sync"}
        => LocalTree(Here) = LocalTree(call.before)

(***************************************************************************)
(* Containment of the mapped path, checked under SpecPolicy.               *)
(***************************************************************************)
\* the directory a path names once "." and ".." are resolved
Resolved(path) == Resolve(Components(path), <<>>)

\* path names dir or something below it
Inside(path, dir) ==
    /\ Len(Resolved(dir)) <= Len(Resolved(path))
    /\ SubSeq(Resolved(path), 1, Len(Resolved(dir))) = Resolved(dir)

\* mount_point/remote_path of the mapping _get_remote_path matched
MatchedRemoteDir(cfg, path) ==
    RemoteDir(cfg, cfg.sync_directories[
        CHOOSE x \in PrefixMappings(cfg, path) :
            \A y \in PrefixMappings(cfg, path) : x <= y])

\* C23: every non-None path returned by _get_remote_path lies inside
\* mount_point/remote_path of the mapping that matched, also for a path that
\* only shares a string prefix with the mapping's local root.
C23_RemoteInsideMapping ==
    (call.op = "get_remote_path" /\ call.ret # None)
        => Inside(call.ret, MatchedRemoteDir(config, call.path))

(***************************************************************************)
(* The log server.  db is the logs table as committed (the row's id is its *)
(* index), fs the log file and the rotated files (entries named by row     *)
(* id), hist.written the number of f.write calls made for each row, call   *)
(* the last add_log request, and pc the position and the locals of the     *)
(* process_logs thread and of the rotate_logs thread:                      *)
(*   at, logs, k   where process_logs is, its fetched batch, the index of  *)
(*                 the row in hand                                         *)
(*   marked        rows its connection has updated and not committed       *)
(*   handle        the file its "with open" block holds                    *)
(*   stale         a connection left open by a failed iteration still      *)
(*                 holds its transaction, and with it the write lock       *)
(*   rot           where rotate_logs is                                    *)
(***************************************************************************)
MaxRows == 2
MaxFaults == 2
MaxRotations == 1

Timestamps == {1, 2}

\* SELECT id ... WHERE processed = 0 ORDER BY timestamp over the rows ids
RECURSIVE OrderByTimestamp(_, _)
OrderByTimestamp(rows, ids) ==
    IF ids = {} THEN <<>>
    ELSE LET first == CHOOSE x \in ids : \A y \in ids :
                          \/ rows[x].timestamp < rows[y].timestamp
                          \/ rows[x].timestamp = rows[y].timestamp /\ x <= y
         IN  <<first>> \o OrderByTimestamp(rows, ids \ {first})

Unprocessed(rows) ==
    OrderByTimestamp(rows, {i \in DOMAIN rows : ~rows[i].processed})

\* another connection holds uncommitted updates: a write by this one waits
\* for the busy timeout and raises "database is locked"
LockHeld == pc.marked # {} \/ pc.stale

InitLog ==
    /\ db = <<>>
    /\ fs \in {[exists |-> FALSE, log |-> <<>>, rotated |-> <<>>],
               [exists |-> TRUE, log |-> <<>>, rotated |-> <<>>]}
    /\ hist = [written |-> [i \in 1..MaxRows |-> 0]]
    /\ call = NoCall
    /\ pc = [at |-> "select", logs |-> <<>>, k |-> 1, marked |-> {},
             handle |-> "none", stale |-> FALSE, rot |-> "idle",
             faults |-> 0, rotations |-> 0]
    /\ config = EmptyConfig
    /\ dirs = {}
    /\ pending = <<>>
    /\ stats = NoFiles
    /\ clock = 0
    /\ mounted = FALSE
    /\ observers = <<>>

\* POST /api/logs: 400 when a required field is missing, 500 when the insert
\* raises, else the row is inserted and committed and the answer is 201
AddLog(valid, timestamp) ==
    /\ Len(db) < MaxRows
    /\ IF ~valid
       THEN /\ call' = [op |-> "add_log", path |-> None, ret |-> 400]
            /\ db' = db
       ELSE IF LockHeld
       THEN /\ call' = [op |-> "add_log", path |-> None, ret |-> 500]
            /\ db' = db
       ELSE /\ call' = [op |-> "add_log", path |-> None, ret |-> 201]
            /\ db' = Append(db, [timestamp |-> timestamp, processed |-> FALSE])
    /\ UNCHANGED <<mounted, observers, pc, config, fs, dirs, pending, stats,
                   clock, hist>>

\* process_logs: connect, select the unprocessed rows; with rows, open the
\* log file for appending (which creates it); without, close and sleep
ProcessSelect ==
    /\ pc.at = "select"
    /\ IF Unprocessed(db) = <<>>
       THEN UNCHANGED <<pc, fs>>
       ELSE /\ pc' = [pc EXCEPT !.at = "write", !.logs = Unprocessed(db),
                                !.k = 1, !.handle = "log"]
            /\ fs' = [fs EXCEPT !.exists = TRUE]
    /\ UNCHANGED <<mounted, observers, config, dirs, pending, db, stats,
                   clock, call, hist>>

\* the except branch: the iteration ends, the with block has closed the
\* file, the connection is neither committed nor closed
ProcessFail ==
    [pc EXCEPT !.at = "select", !.logs = <<>>, !.k = 1, !.marked = {},
               !.handle = "none", !.stale = pc.stale \/ pc.marked # {},
               !.faults = pc.faults + 1]

\* f.write(log_entry) for the row in hand, or its failure
ProcessWrite(fault) ==
    /\ pc.at = "write"
    /\ fault => pc.faults < MaxFaults
    /\ IF fault
       THEN /\ pc' = ProcessFail
            /\ UNCHANGED <<fs, hist>>
       ELSE /\ pc' = [pc EXCEPT !.at = "update"]
            /\ fs' = IF pc.handle = "log"
                     THEN [fs EXCEPT !.log = Append(fs.log, pc.logs[pc.k])]
                     ELSE [fs EXCEPT !.rotated = Append(fs.rotated, pc.logs[pc.k])]
            /\ hist' = [hist EXCEPT !.written[pc.logs[pc.k]] =
                                        hist.written[pc.logs[pc.k]] + 1]
    /\ UNCHANGED <<mounted, observers, config, dirs, pending, db, stats,
                   clock, call>>

\* UPDATE logs SET processed = 1 WHERE id = ? for the row in hand; it raises
\* when a stale connection holds the lock, and may fail otherwise
ProcessUpdate(fault) ==
    /\ pc.at = "update"
    /\ (fault \/ pc.stale) => pc.faults < MaxFaults
    /\ pc' = IF fault \/ pc.stale THEN ProcessFail
             ELSE [pc EXCEPT !.marked = pc.marked \cup {pc.logs[pc.k]},
                             !.k = pc.k + 1,
                             !.at = IF pc.k < Len(pc.logs) THEN "write"
                                    ELSE "commit",
                             !.handle = IF pc.k < Len(pc.logs) THEN pc.handle
                                        ELSE "none"]
    /\ UNCHANGED <<mounted, observers, config, fs, dirs, pending, db, stats,
                   clock, call, hist>>

\* conn.commit() after the with block, then close and sleep; or its failure
ProcessCommit(fault) ==
    /\ pc.at = "commit"
    /\ fault => pc.faults < MaxFaults
    /\ IF fault
       THEN /\ pc' = ProcessFail
            /\ db' = db
       ELSE /\ pc' = [pc EXCEPT !.at = "select", !.logs = <<>>, !.k = 1,
                                !.marked = {}]
            /\ db' = [i \in DOMAIN db |->
                         IF i \in pc.marked
                         THEN [db[i] EXCEPT !.processed = TRUE] ELSE db[i]]
    /\ UNCHANGED <<mounted, observers, config, fs, dirs, pending, stats,
                   clock, call, hist>>

\* the connection a failed iteration left behind is finalized: its
\* transaction is rolled back and the lock released
Collect ==
    /\ pc.stale
    /\ pc' = [pc EXCEPT !.stale = FALSE]
    /\ UNCHANGED <<mounted, observers, config, fs, dirs, pending, db, stats,
                   clock, call, hist>>

\* rotate_logs: os.rename(LOG_FILE, rotated_file); a file held open follows
\* the rename
RotateRename ==
    /\ pc.rot = "idle"
    /\ pc.rotations < MaxRotations
    /\ fs.exists
    /\ fs' = [exists |-> FALSE, log |-> <<>>, rotated |-> fs.rotated \o fs.log]
    /\ pc' = [pc EXCEPT !.rot = "renamed",
                        !.handle = IF pc.handle = "log" THEN "rotated"
                                   ELSE pc.handle]
    /\ UNCHANGED <<mounted, observers, config, dirs, pending, db, stats,
                   clock, call, hist>>

\* rotate_logs: open(LOG_FILE, 'w') and the "Log started at" line: the file
\* is created, or truncated when process_logs has created it meanwhile
RotateCreate ==
    /\ pc.rot = "renamed"
    /\ fs' = [fs EXCEPT !.exists = TRUE, !.log = <<>>]
    /\ pc' = [pc EXCEPT !.rot = "idle", !.rotations = pc.rotations + 1]
    /\ UNCHANGED <<mounted, observers, config, dirs, pending, db, stats,
                   clock, call, hist>>

NextLog ==
    \/ \E valid \in BOOLEAN, timestamp \in Timestamps : AddLog(valid, timestamp)
    \/ ProcessSelect
    \/ \E fault \in BOOLEAN : ProcessWrite(fault)
    \/ \E fault \in BOOLEAN : ProcessUpdate(fault)
    \/ \E fault \in BOOLEAN : ProcessCommit(fault)
    \/ Collect
    \/ RotateRename
    \/ RotateCreate

SpecLog == InitLog /\ [][NextLog]_vars

\* C24: no row's entry is written to the log file more than once, whatever
\* fails between the write and the commit, and a row marked processed has
\* been written exactly once.
C24_WrittenExactlyOnce ==
    \A i \in DOMAIN db :
        /\ hist.written[i] <= 1
        /\ db[i].processed => hist.written[i] = 1

====
